---- MODULE Spec2Model ----
(***************************************************************************)
(* Handle ownership and locking layer of tesseract-rs.                     *)
(*                                                                         *)
(* Every wrapper (TesseractAPI, PageIterator, ResultIterator,              *)
(* MutableIterator, ChoiceIterator, TessMonitor, TessResultRenderer) is a  *)
(* struct holding  handle: Arc<Mutex<*mut c_void>>.  A method locks the    *)
(* mutex, makes one native call with the raw pointer and drops the guard   *)
(* at scope exit; Drop locks the mutex and calls the native delete entry   *)
(* point.  A method call is modelled in three steps: Begin (arguments are  *)
(* converted), Acquire (Mutex::lock, the native call starts) and Finish    *)
(* (the native call returns, the result is converted, the guard drops).    *)
(***************************************************************************)
EXTENDS Integers, FiniteSets, Sequences, TLC

(* ---------------------------------------------------------------------- *)
(* Bounds                                                                  *)
(* ---------------------------------------------------------------------- *)

\* most wrappers (shared owners) one native handle ever gets
MaxOwners == 2

\* most words a recognised page holds
MaxWords == 3

Threads == {"t1", "t2"}
Handles == {"h1", "h2", "h3"}
NoThread == "none"
NoHandle == "-"

Kinds == {"api", "page", "result", "mutable", "choice", "monitor", "renderer"}

\* the wrapper types each handle slot can be constructed as
KindChoices(h) ==
    CASE h = "h1" -> {"api", "page", "result", "mutable"}
      [] h = "h2" -> {"renderer", "monitor", "choice"}
      [] OTHER    -> {"renderer"}

\* the slot of the engine, of the wrapper a session creates beside it (a
\* TessMonitor, a renderer or a ChoiceIterator) and of the ResultIterator that
\* get_iterator hands out
Engine == "h1"
Beside == "h2"
IterHandle == "h3"
\* the slot of the PageIterator that get_iterators hands out
PageHandle == "h2"

\* engine configuration variables: one name the engine knows, one it does not
VarNames == {"known", "unknown"}
\* marker for a native byte string that is not valid UTF-8
InvalidUtf8 == 2
\* values set_variable can store (a &str argument is always valid UTF-8)
SetValues == {0, 1}
\* the value the native engine holds for the known variable after create
NativeDefaults == {0, InvalidUtf8}

VARIABLES
    kind,         \* kind[h]: wrapper type constructed over handle h, "none" before
    live,         \* live[h]: number of live wrappers sharing the Arc of h
    lockHolder,   \* lockHolder[h]: thread holding the MutexGuard of h
    poisoned,     \* poisoned[h]: the Mutex poison flag
    dropDeletes,  \* dropDeletes[h]: native delete calls made by Drop on h
    explicitDel,  \* explicitDel[h]: TessMutableIteratorDelete has run on h
    native,       \* native[h]: state inside the native object behind h
    lastSet,      \* lastSet[h]: the value the last successful set_variable on h stored
    pc,           \* pc[t]: "idle", "acq", "acq2" or "native"
    op,           \* op[t]: the call thread t is making, NoOp when idle
    ret,          \* ret[t]: what the last call of t returned, NoRet during a call
    cpc,          \* position of the sequential caller: "idle", "native" or "convert"
    cop,          \* the engine call the sequential caller is making or made last
    craw,         \* what the native entry point of that call handed back
    cres,         \* what that call returned and what it did to reach it
    cprev,        \* what the same call returned right before, when it is repeated
    iter          \* a layout iterator walked by one caller, NoIter before it exists

vars == <<kind, live, lockHolder, poisoned, dropDeletes, explicitDel,
          native, lastSet, pc, op, ret, cpc, cop, craw, cres, cprev, iter>>

\* the state of the sequential caller
callVars == <<cpc, cop, craw, cres, cprev, iter>>

(* ---------------------------------------------------------------------- *)
(* Per-type behaviour on a poisoned lock                                   *)
(* ---------------------------------------------------------------------- *)

\* how a method of the wrapper type treats the Result of Mutex::lock
LockStyle(k) ==
    IF k \in {"page", "monitor", "renderer"} THEN "unwrap" ELSE "map_err"

\* the error a map_err method returns for a poisoned lock
LockErr(k) == IF k = "mutable" THEN "MutexError" ELSE "MutexLockError"

\* how Drop of the wrapper type treats the Result of Mutex::lock
DropStyle(k) ==
    IF k \in {"page", "monitor", "renderer"} THEN "unwrap" ELSE "if_let"

\* method names offered by each wrapper type
EngineGetters == {"get_string_variable", "get_int_variable",
                  "get_bool_variable", "get_double_variable"}

\* the init entry points and the two variable setters
InitVariants == {"init", "init_1", "init_2", "init_4", "init_5"}
VarSetters == {"set_variable", "set_debug_variable"}

\* methods made of helper calls that each take the lock and release it
WordGetters == {"get_current_word", "get_word_with_bounds"}
SteppedCalls == WordGetters \cup {"get_iterators"}

\* the helper a stepped method calls first, and the one after helper s
FirstStep(m) == IF m = "get_iterators" THEN "recognize" ELSE "text"
NextStep(s) ==
    CASE s = "recognize" -> "iterators"
      [] s = "text"      -> "box"
      [] s = "box"       -> "conf"
      [] OTHER           -> "done"

\* the engine methods called on a shared engine
EngineMethods == {"init", "set_variable", "set_image"} \cup EngineGetters

MethodsOf(k) ==
    CASE k = "api"      -> EngineMethods
                             \cup {"recognize", "clear", "get_iterator"}
                             \cup {"get_iterators", "adapt_to_word_str",
                                   "get_loaded_languages"}
      [] k = "page"     -> {"next"}
      [] k = "result"   -> {"next", "next_word"} \cup WordGetters
      [] k = "choice"   -> {"next"}
      [] k = "mutable"  -> {"next", "delete"}
      [] k = "monitor"  -> {"get_progress", "set_deadline"}
      [] k = "renderer" -> {"end_document"}
      [] OTHER          -> {}

\* a sequential engine call: set_image carries its dimensions and buffer length
NoCall == [name |-> "-", arg |-> "-", val |-> 0,
           width |-> 0, height |-> 0, bpp |-> 0, bpl |-> 0, len |-> 0]
\* a native result: a status, or a pointer (null or not) to a buffer
NoRaw == [status |-> 0, null |-> FALSE, data |-> <<>>]
NoRes == [ret |-> [tag |-> "none", err |-> "-", val |-> <<>>], events |-> <<>>, calls |-> 0]
\* no earlier result of the same call
NoPrev == [tag |-> "none", err |-> "-", val |-> <<>>]
\* no iterator: nothing to walk, no position
NoIter == [kind |-> "none", page |-> <<>>, pos |-> 0, visited |-> <<>>,
           level |-> "-", lastOp |-> "-", last |-> FALSE, hadFalse |-> FALSE]

NoOp == [name |-> "-", h |-> NoHandle, h2 |-> NoHandle, arg |-> "-", val |-> 0]
NoRet == [tag |-> "none", err |-> "-", val |-> 0]

OkRet(v) == [tag |-> "Ok", err |-> "-", val |-> v]
ErrRet(e) == [tag |-> "Err", err |-> e, val |-> 0]
PanicRet(e) == [tag |-> "Panic", err |-> e, val |-> 0]

B2I(b) == IF b THEN 1 ELSE 0

(* ---------------------------------------------------------------------- *)
(* Initial state: no native object has been created yet                    *)
(* ---------------------------------------------------------------------- *)

Init ==
    /\ kind = [h \in Handles |-> "none"]
    /\ live = [h \in Handles |-> 0]
    /\ lockHolder = [h \in Handles |-> NoThread]
    /\ poisoned = [h \in Handles |-> FALSE]
    /\ dropDeletes = [h \in Handles |-> 0]
    /\ explicitDel = [h \in Handles |-> FALSE]
    /\ native = [h \in Handles |-> [inited |-> FALSE, image |-> FALSE, var |-> 0]]
    /\ lastSet = [h \in Handles |-> [set |-> FALSE, val |-> 0]]
    /\ pc = [t \in Threads |-> "idle"]
    /\ op = [t \in Threads |-> NoOp]
    /\ ret = [t \in Threads |-> NoRet]
    /\ cpc = "idle"
    /\ cop = NoCall
    /\ craw = NoRaw
    /\ cres = NoRes
    /\ cprev = NoPrev
    /\ iter = NoIter

(* ---------------------------------------------------------------------- *)
(* Ownership bookkeeping                                                   *)
(* ---------------------------------------------------------------------- *)

\* the native object behind h has been passed to a native delete entry point
Released(h) == dropDeletes[h] > 0 \/ explicitDel[h]

\* threads running Drop of a wrapper of h
Droppers(h) == {t \in Threads : pc[t] # "idle" /\ op[t].name = "drop" /\ op[t].h = h}

\* threads inside a method that borrows a wrapper of h
Users(h) == {t \in Threads : /\ pc[t] # "idle"
                             /\ op[t].name # "drop"
                             /\ (op[t].h = h \/ op[t].h2 = h)}

\* wrappers of h that are not being dropped
Borrowable(h) == live[h] - Cardinality(Droppers(h))

\* locks thread t holds
HeldBy(t) == {h \in Handles : lockHolder[h] = t}

(* ---------------------------------------------------------------------- *)
(* Construction and cloning                                                *)
(* ---------------------------------------------------------------------- *)

\* TesseractAPI::new, PageIterator::new, ... : wrap a fresh native pointer in
\* Arc::new(Mutex::new(handle))
Construct(h) ==
    /\ kind[h] = "none"
    /\ \E k \in KindChoices(h), d \in NativeDefaults :
         /\ kind' = [kind EXCEPT ![h] = k]
         /\ native' = [native EXCEPT ![h].var = IF k = "api" THEN d ELSE 0]
    /\ live' = [live EXCEPT ![h] = 1]
    /\ UNCHANGED <<lockHolder, poisoned, dropDeletes, explicitDel, lastSet, pc, op, ret>>

\* Clone of a TesseractAPI: one more wrapper over the same Arc
Clone(h) ==
    /\ kind[h] = "api"
    /\ Borrowable(h) >= 1
    /\ live[h] + dropDeletes[h] < MaxOwners
    /\ live' = [live EXCEPT ![h] = @ + 1]
    /\ UNCHANGED <<kind, lockHolder, poisoned, dropDeletes, explicitDel,
                   native, lastSet, pc, op, ret>>

(* ---------------------------------------------------------------------- *)
(* Starting a call                                                         *)
(* ---------------------------------------------------------------------- *)

ArgsOf(m) ==
    CASE m = "init"         -> {"valid", "invalid"}
      [] m = "set_variable" -> VarNames
      [] m \in EngineGetters -> VarNames
      [] m \in SteppedCalls -> {FirstStep(m)}
      [] m = "adapt_to_word_str" -> {"plain", "nul"}
      [] OTHER              -> {"-"}

ValsOf(m) == IF m = "set_variable" THEN SetValues ELSE {0}

\* a method taking &self on a wrapper of h; CString conversions of the
\* arguments happen here, before the lock is taken
BeginCall(t, h, m) ==
    /\ pc[t] = "idle"
    /\ Borrowable(h) >= 1
    /\ m \in MethodsOf(kind[h])
    /\ \E a \in ArgsOf(m), v \in ValsOf(m) :
         op' = [op EXCEPT ![t] = [name |-> m, h |-> h, h2 |-> NoHandle,
                                  arg |-> a, val |-> v]]
    /\ pc' = [pc EXCEPT ![t] = "acq"]
    /\ ret' = [ret EXCEPT ![t] = NoRet]
    /\ UNCHANGED <<kind, live, lockHolder, poisoned, dropDeletes, explicitDel,
                   native, lastSet>>

\* TessResultRenderer::add_image(&self, api: &TesseractAPI)
BeginAddImage(t, r, e) ==
    /\ pc[t] = "idle"
    /\ kind[r] = "renderer" /\ kind[e] = "api"
    /\ Borrowable(r) >= 1 /\ Borrowable(e) >= 1
    /\ op' = [op EXCEPT ![t] = [name |-> "add_image", h |-> r, h2 |-> e,
                                arg |-> "-", val |-> 0]]
    /\ pc' = [pc EXCEPT ![t] = "acq"]
    /\ ret' = [ret EXCEPT ![t] = NoRet]
    /\ UNCHANGED <<kind, live, lockHolder, poisoned, dropDeletes, explicitDel,
                   native, lastSet>>

\* faulty variant: an engine that is not dropped while an iterator it handed
\* out is alive
BeginDropAfterIterators(t, h) ==
    /\ pc[t] = "idle"
    /\ Borrowable(h) >= 1
    /\ (Users(h) # {} => Borrowable(h) >= 2)
    /\ (h = Engine => live[IterHandle] = 0)
    /\ op' = [op EXCEPT ![t] = [name |-> "drop", h |-> h, h2 |-> NoHandle,
                                arg |-> "-", val |-> 0]]
    /\ pc' = [pc EXCEPT ![t] = "acq"]
    /\ ret' = [ret EXCEPT ![t] = NoRet]
    /\ UNCHANGED <<kind, live, lockHolder, poisoned, dropDeletes, explicitDel,
                   native, lastSet>>

\* a wrapper of h goes out of scope: Drop::drop(&mut self) starts.  The
\* wrapper is exclusively borrowed, so methods in progress use another one.
BeginDrop(t, h) ==
    /\ pc[t] = "idle"
    /\ Borrowable(h) >= 1
    /\ (Users(h) # {} => Borrowable(h) >= 2)
    /\ op' = [op EXCEPT ![t] = [name |-> "drop", h |-> h, h2 |-> NoHandle,
                                arg |-> "-", val |-> 0]]
    /\ pc' = [pc EXCEPT ![t] = "acq"]
    /\ ret' = [ret EXCEPT ![t] = NoRet]
    /\ UNCHANGED <<kind, live, lockHolder, poisoned, dropDeletes, explicitDel,
                   native, lastSet>>

(* ---------------------------------------------------------------------- *)
(* Locking                                                                 *)
(* ---------------------------------------------------------------------- *)

\* faulty variant: a lock() that does not wait for the guard of another thread
LockFreeNoWait(h) == TRUE

\* faulty variant: one lock shared by every handle
LockFreeGlobal(h) == \A g \in Handles : lockHolder[g] = NoThread

\* Mutex::lock blocks while another guard is alive
LockFree(h) == lockHolder[h] = NoThread

\* faulty variant: add_image locking the renderer before the engine
LockOrderRendererFirst(o) ==
    IF o.name = "add_image" THEN <<o.h, o.h2>> ELSE <<o.h>>

\* the locks a call takes, in the order it takes them; add_image locks the
\* engine (api.handle) first and the renderer (self.handle) second
LockOrder(o) ==
    IF o.name = "add_image" THEN <<o.h2, o.h>> ELSE <<o.h>>

\* the lock thread t is about to take
Wanted(t) ==
    IF pc[t] = "acq2" THEN LockOrder(op[t])[2] ELSE LockOrder(op[t])[1]

\* the wrapper type whose code is running the lock() call of t
LockingKind(t) == kind[op[t].h]

\* guards of t dropped while t unwinds from a panic: each mutex is poisoned
PoisonHeld(t) == [h \in Handles |-> poisoned[h] \/ lockHolder[h] = t]

\* guards of t dropped: the mutexes are unlocked
Unlock(t) == [h \in Handles |-> IF lockHolder[h] = t THEN NoThread ELSE lockHolder[h]]

\* outcome of a call that finds its lock poisoned
PoisonOutcome(o, k) ==
    IF o.name = "drop"
    THEN IF DropStyle(k) = "if_let"
         THEN [tag |-> "Val", err |-> "leak", val |-> 0]
         ELSE PanicRet("PoisonError")
    ELSE IF LockStyle(k) = "map_err"
         THEN ErrRet(LockErr(k))
         ELSE PanicRet("PoisonError")

\* self.handle.lock(): take the mutex, or handle the PoisonError
Acquire(t) ==
    /\ pc[t] \in {"acq", "acq2"}
    /\ LET o == op[t]
           l == Wanted(t)
           k == LockingKind(t)
       IN /\ LockFree(l)
          /\ IF poisoned[l]
             THEN LET out == PoisonOutcome(o, k)
                  IN /\ ret' = [ret EXCEPT ![t] = out]
                     /\ pc' = [pc EXCEPT ![t] = "idle"]
                     /\ poisoned' = IF out.tag = "Panic" THEN PoisonHeld(t) ELSE poisoned
                     /\ lockHolder' = Unlock(t)
                     /\ live' = IF o.name = "drop"
                                THEN [live EXCEPT ![o.h] = @ - 1] ELSE live
                     /\ op' = [op EXCEPT ![t] = NoOp]
             ELSE /\ lockHolder' = [lockHolder EXCEPT ![l] = t]
                  /\ pc' = [pc EXCEPT ![t] =
                              IF pc[t] = "acq" /\ Len(LockOrder(o)) = 2
                              THEN "acq2" ELSE "native"]
                  /\ UNCHANGED <<ret, poisoned, live, op>>
    /\ UNCHANGED <<kind, dropDeletes, explicitDel, native, lastSet>>

\* a panic unwinds through the critical section of t
PanicWhileLocked(t) ==
    /\ pc[t] \in {"acq2", "native"}
    /\ poisoned' = PoisonHeld(t)
    /\ lockHolder' = Unlock(t)
    /\ pc' = [pc EXCEPT ![t] = "idle"]
    /\ ret' = [ret EXCEPT ![t] = PanicRet("panic")]
    /\ live' = IF op[t].name = "drop" THEN [live EXCEPT ![op[t].h] = @ - 1] ELSE live
    /\ op' = [op EXCEPT ![t] = NoOp]
    /\ UNCHANGED <<kind, dropDeletes, explicitDel, native, lastSet>>

(* ---------------------------------------------------------------------- *)
(* The native entry points                                                 *)
(* ---------------------------------------------------------------------- *)

\* a NULL pointer returned by a native entry point; also the failure status
\* of TessBaseAPIInit3
Null == -1

\* every raw value a native entry point can hand back
RawValues == {Null, 0, 1, InvalidUtf8}

\* The raw results and successor states of the native call of operation o on
\* a valid native object in state n.
NativeCall(o, n) ==
    CASE o.name \in InitVariants ->
           IF o.arg = "valid"
           THEN {[raw |-> 0, nat |-> [n EXCEPT !.inited = TRUE]]}
           ELSE {[raw |-> r, nat |-> [n EXCEPT !.inited = FALSE]] : r \in {Null, 1}}
      [] o.name \in VarSetters ->
           IF o.arg = "known"
           THEN {[raw |-> 1, nat |-> [n EXCEPT !.var = o.val]]}
           ELSE {[raw |-> 0, nat |-> n]}
      [] o.name = "get_string_variable" ->
           IF o.arg = "known"
           THEN {[raw |-> n.var, nat |-> n]}
           ELSE {[raw |-> Null, nat |-> n]}
      [] o.name \in {"get_int_variable", "get_bool_variable", "get_double_variable"} ->
           IF o.arg = "known"
           THEN {[raw |-> n.var, nat |-> n]}
           ELSE {[raw |-> 0, nat |-> n]}
      [] o.name = "set_image" ->
           {[raw |-> 0, nat |-> [n EXCEPT !.image = TRUE]]}
      [] o.name = "clear" ->
           {[raw |-> 0, nat |-> [n EXCEPT !.image = FALSE]]}
      [] o.name = "get_iterator" ->
           {[raw |-> r, nat |-> n] : r \in IF n.image THEN {Null, 1} ELSE {Null}}
      [] o.name = "set_deadline" ->
           {[raw |-> 0, nat |-> [n EXCEPT !.var = 1]]}
      [] o.name = "next_word" ->
           \* the cursor of the iterator moves on one word, or stays at the end
           IF n.var < MaxWords
           THEN {[raw |-> 1, nat |-> [n EXCEPT !.var = @ + 1]]}
           ELSE {[raw |-> 0, nat |-> n]}
      [] OTHER ->
           {[raw |-> r, nat |-> n] : r \in {0, 1}}

\* The same call on a released native object is undefined behaviour: any raw
\* value can come back.
NativeCallReleased(o, n) == {[raw |-> r, nat |-> n] : r \in RawValues}

\* faulty variant: only a negative status counts as a failed init
WrapInitNegativeOnly(raw) ==
    IF raw < 0 THEN ErrRet("InitError") ELSE OkRet(0)

\* init, init_1, init_2, init_4, init_5:  if result != 0 { Err(InitError) }
WrapInit(raw) ==
    IF raw # 0 THEN ErrRet("InitError") ELSE OkRet(0)

\* faulty variant: the setters testing the status the way init does
WrapSetLikeInit(raw) ==
    IF raw # 0 THEN ErrRet("SetVariableError") ELSE OkRet(0)

\* set_variable, set_debug_variable:  if result != 1 { Err(SetVariableError) }
WrapSet(raw) ==
    IF raw # 1 THEN ErrRet("SetVariableError") ELSE OkRet(0)

\* what the wrapper method returns for the raw native result
Wrap(o, k, raw) ==
    CASE o.name \in InitVariants -> WrapInit(raw)
      [] o.name \in VarSetters -> WrapSet(raw)
      [] o.name = "get_string_variable" ->
           IF raw = Null THEN ErrRet("GetVariableError")
           ELSE IF raw = InvalidUtf8 THEN ErrRet("Utf8Error")
           ELSE OkRet(raw)
      [] o.name \in {"get_int_variable", "get_double_variable"} -> OkRet(raw)
      [] o.name = "get_bool_variable" -> OkRet(B2I(raw # 0))
      [] o.name = "set_image" -> OkRet(0)
      [] o.name = "recognize" ->
           IF raw # 0 THEN ErrRet("OcrError") ELSE OkRet(0)
      [] o.name = "clear" -> OkRet(0)
      [] o.name = "get_iterator" ->
           IF raw = Null THEN ErrRet("NullPointerError") ELSE OkRet(0)
      [] o.name = "set_deadline" -> [tag |-> "Val", err |-> "-", val |-> 0]
      [] o.name \in {"next_word", "adapt_to_word_str"} -> OkRet(B2I(raw # 0))
      [] o.name = "get_loaded_languages" -> OkRet(0)
      [] o.name = "get_progress" -> [tag |-> "Val", err |-> "-", val |-> raw]
      [] o.name = "drop" -> [tag |-> "Val", err |-> "-", val |-> 0]
      [] o.name \in {"next", "delete"} /\ LockStyle(k) = "map_err" ->
           OkRet(B2I(raw # 0))
      [] OTHER -> [tag |-> "Val", err |-> "-", val |-> B2I(raw # 0)]

\* the handles passed to the native call of operation o: add_image passes
\* the renderer and the engine, every other call its own handle only
\* (recognize passes std::ptr::null_mut() for the monitor)
NativeArgs(o) == IF o.name = "add_image" THEN {o.h, o.h2} ELSE {o.h}

\* faulty variant: the guard outlives a call that returns an early Err
GuardDropKeptOnErr(t, out) == IF out.tag = "Err" THEN lockHolder ELSE Unlock(t)

\* the guards go out of scope when the method returns
GuardDrop(t, out) == Unlock(t)

\* the native call of t returns, the wrapper converts the result and returns
Finish(t) ==
    /\ pc[t] = "native"
    /\ LET o == op[t]
           k == kind[o.h]
           n == native[o.h]
       IN \E c \in (IF Released(o.h) THEN NativeCallReleased(o, n) ELSE NativeCall(o, n)) :
            LET out == Wrap(o, k, c.raw)
            IN /\ ret' = [ret EXCEPT ![t] = out]
               /\ native' = [native EXCEPT ![o.h] = c.nat]
               /\ lastSet' = IF o.name = "set_variable" /\ out.tag = "Ok"
                             THEN [lastSet EXCEPT ![o.h] = [set |-> TRUE, val |-> o.val]]
                             ELSE lastSet
               /\ dropDeletes' = IF o.name = "drop"
                                 THEN [dropDeletes EXCEPT ![o.h] = @ + 1]
                                 ELSE dropDeletes
               /\ explicitDel' = IF o.name = "delete"
                                 THEN [explicitDel EXCEPT ![o.h] = TRUE]
                                 ELSE explicitDel
               /\ live' = IF o.name = "drop" THEN [live EXCEPT ![o.h] = @ - 1] ELSE live
               /\ lockHolder' = GuardDrop(t, out)
    /\ pc' = [pc EXCEPT ![t] = "idle"]
    /\ op' = [op EXCEPT ![t] = NoOp]
    /\ UNCHANGED <<kind, poisoned>>

(* ---------------------------------------------------------------------- *)
(* Specifications                                                          *)
(* ---------------------------------------------------------------------- *)

\* The locking discipline of all seven wrapper types: one lock-and-call method
\* of each type, add_image, MutableIterator::delete and Drop.
LockMethods == {"set_image", "next", "delete", "get_progress", "end_document"}

NextLocking ==
    \/ (\E h \in Handles : Construct(h)) /\ UNCHANGED callVars
    \/ (\E t \in Threads, h \in Handles, m \in LockMethods : BeginCall(t, h, m))
          /\ UNCHANGED callVars
    \/ (\E t \in Threads, r \in Handles, e \in Handles : BeginAddImage(t, r, e))
          /\ UNCHANGED callVars
    \/ (\E t \in Threads, h \in Handles : BeginDrop(t, h)) /\ UNCHANGED callVars
    \/ (\E t \in Threads : Acquire(t)) /\ UNCHANGED callVars
    \/ (\E t \in Threads : Finish(t)) /\ UNCHANGED callVars
    \/ (\E t \in Threads : PanicWhileLocked(t)) /\ UNCHANGED callVars

SpecLocking == Init /\ [][NextLocking]_vars

\* One engine shared by cloned TesseractAPI wrappers.
NextEngine ==
    \/ Construct(Engine) /\ kind'[Engine] = "api" /\ UNCHANGED callVars
    \/ Clone(Engine) /\ UNCHANGED callVars
    \/ (\E t \in Threads, m \in EngineMethods : BeginCall(t, Engine, m))
          /\ UNCHANGED callVars
    \/ (\E t \in Threads : BeginDrop(t, Engine)) /\ UNCHANGED callVars
    \/ (\E t \in Threads : Acquire(t)) /\ UNCHANGED callVars
    \/ (\E t \in Threads : Finish(t)) /\ UNCHANGED callVars
    \/ (\E t \in Threads : PanicWhileLocked(t)) /\ UNCHANGED callVars

SpecEngine == Init /\ [][NextEngine]_vars

\* get_iterator returns: for a non-null pointer ResultIterator::new wraps it
\* in its own Arc<Mutex<..>>, which holds no reference to the engine
FinishGetIterator(t) ==
    /\ pc[t] = "native"
    /\ op[t].name = "get_iterator"
    /\ LET o == op[t]
           n == native[o.h]
       IN \E c \in (IF Released(o.h) THEN NativeCallReleased(o, n) ELSE NativeCall(o, n)) :
            LET out == Wrap(o, kind[o.h], c.raw)
            IN /\ ret' = [ret EXCEPT ![t] = out]
               /\ native' = [native EXCEPT ![o.h] = c.nat]
               /\ kind' = IF out.tag = "Ok"
                          THEN [kind EXCEPT ![IterHandle] = "result"] ELSE kind
               /\ live' = IF out.tag = "Ok"
                          THEN [live EXCEPT ![IterHandle] = 1] ELSE live
               /\ lockHolder' = GuardDrop(t, out)
    /\ pc' = [pc EXCEPT ![t] = "idle"]
    /\ op' = [op EXCEPT ![t] = NoOp]
    /\ UNCHANGED <<poisoned, dropDeletes, explicitDel, lastSet>>

\* One recognition session: an engine, the iterator it hands out and a
\* monitor, renderer or choice iterator beside them, used from two threads.
SessionMethods == {"set_image", "recognize", "clear", "next",
                   "set_deadline", "end_document"}

NextSession ==
    \/ Construct(Engine) /\ kind'[Engine] = "api" /\ UNCHANGED callVars
    \/ Construct(Beside) /\ UNCHANGED callVars
    \/ (\E t \in Threads, h \in Handles, m \in SessionMethods : BeginCall(t, h, m))
          /\ UNCHANGED callVars
    \/ (\E t \in Threads :
          kind[IterHandle] = "none" /\ BeginCall(t, Engine, "get_iterator"))
          /\ UNCHANGED callVars
    \/ (\E t \in Threads, h \in Handles : BeginDrop(t, h)) /\ UNCHANGED callVars
    \/ (\E t \in Threads : Acquire(t)) /\ UNCHANGED callVars
    \/ (\E t \in Threads : op[t].name # "get_iterator" /\ Finish(t))
          /\ UNCHANGED callVars
    \/ (\E t \in Threads : FinishGetIterator(t)) /\ UNCHANGED callVars

SpecSession == Init /\ [][NextSession]_vars

(* ---------------------------------------------------------------------- *)
(* Methods that take the lock more than once, and argument conversions     *)
(* ---------------------------------------------------------------------- *)

\* faulty variant: the guard of a helper kept by the method that called it
HelperReturnKeepsGuard(t) == lockHolder

\* a helper method returns to the method that called it: its guard is dropped
HelperReturn(t) == Unlock(t)

\* adapt_to_word_str converts its string after taking the lock; every other
\* method converts its strings first
ConvertsUnderLock(m) == m = "adapt_to_word_str"

\* methods converting a &str argument with CString::new(..).unwrap()
NulArgMethods == {"set_variable", "adapt_to_word_str"}

\* a call whose string has an interior NUL and is converted before the lock:
\* the unwrap panics and the method is left with no lock taken
BeginNulArg(t, h, m) ==
    /\ pc[t] = "idle"
    /\ Borrowable(h) >= 1
    /\ m \in MethodsOf(kind[h]) \cap NulArgMethods
    /\ ~ConvertsUnderLock(m)
    /\ ret' = [ret EXCEPT ![t] = PanicRet("NulError")]
    /\ UNCHANGED <<kind, live, lockHolder, poisoned, dropDeletes, explicitDel,
                   native, lastSet, pc, op>>

\* the same panic in a method that converts under its guard: the guard is
\* dropped while the thread unwinds
NulPanicLocked(t) ==
    /\ pc[t] = "native"
    /\ ConvertsUnderLock(op[t].name)
    /\ op[t].arg = "nul"
    /\ poisoned' = PoisonHeld(t)
    /\ lockHolder' = Unlock(t)
    /\ pc' = [pc EXCEPT ![t] = "idle"]
    /\ ret' = [ret EXCEPT ![t] = PanicRet("NulError")]
    /\ op' = [op EXCEPT ![t] = NoOp]
    /\ UNCHANGED <<kind, live, dropDeletes, explicitDel, native, lastSet>>

\* get_iterators, one locked section at a time: self.recognize()? takes and
\* drops the guard; then the method locks again, asks for the two iterators,
\* and wraps them or returns NullPointerError
IteratorsStep(t) ==
    /\ pc[t] = "native"
    /\ op[t].name = "get_iterators"
    /\ LET o == op[t]
           n == native[o.h]
           rec == [o EXCEPT !.name = "recognize"]
       IN IF o.arg = "recognize"
          THEN \E c \in (IF Released(o.h) THEN NativeCallReleased(rec, n)
                                          ELSE NativeCall(rec, n)) :
                 LET out == Wrap(rec, kind[o.h], c.raw)
                 IN IF out.tag = "Err"
                    THEN /\ ret' = [ret EXCEPT ![t] = out]
                         /\ pc' = [pc EXCEPT ![t] = "idle"]
                         /\ op' = [op EXCEPT ![t] = NoOp]
                         /\ lockHolder' = GuardDrop(t, out)
                         /\ UNCHANGED <<kind, live, native>>
                    ELSE /\ pc' = [pc EXCEPT ![t] = "acq"]
                         /\ op' = [op EXCEPT ![t].arg = NextStep(o.arg)]
                         /\ lockHolder' = HelperReturn(t)
                         /\ UNCHANGED <<ret, kind, live, native>>
          ELSE \E pg \in (IF n.image THEN {Null, 1} ELSE {Null}),
                  rs \in (IF n.image THEN {Null, 1} ELSE {Null}) :
                 /\ IF pg = Null \/ rs = Null
                    THEN /\ ret' = [ret EXCEPT ![t] = ErrRet("NullPointerError")]
                         /\ UNCHANGED <<kind, live, native>>
                    ELSE /\ ret' = [ret EXCEPT ![t] = OkRet(0)]
                         /\ kind' = [kind EXCEPT ![PageHandle] = "page",
                                                 ![IterHandle] = "result"]
                         /\ live' = [live EXCEPT ![PageHandle] = 1,
                                                 ![IterHandle] = 1]
                         /\ native' = [native EXCEPT ![IterHandle].var = 0]
                 /\ pc' = [pc EXCEPT ![t] = "idle"]
                 /\ op' = [op EXCEPT ![t] = NoOp]
                 /\ lockHolder' = Unlock(t)
    /\ UNCHANGED <<poisoned, dropDeletes, explicitDel, lastSet>>

\* get_current_word and get_word_with_bounds, one locked section at a time:
\* get_utf8_text(RIL_WORD)?, get_bounding_box(RIL_WORD)?, confidence(RIL_WORD)?.
\* op[t].val keeps the cursor position the text was read at.
WordStep(t) ==
    /\ pc[t] = "native"
    /\ op[t].name \in WordGetters
    /\ LET o == op[t]
           n == native[o.h]
       IN \E raw \in {Null, 1} :
            LET out == CASE o.arg = "text" /\ raw = Null -> ErrRet("NullPointerError")
                         [] o.arg = "box" /\ raw = Null -> ErrRet("InvalidParameterError")
                         [] o.arg = "conf" -> OkRet(o.val)
                         [] OTHER -> NoRet
            IN IF out.tag = "none"
               THEN /\ pc' = [pc EXCEPT ![t] = "acq"]
                    /\ op' = [op EXCEPT ![t].arg = NextStep(o.arg),
                                        ![t].val = IF o.arg = "text" THEN n.var ELSE @]
                    /\ lockHolder' = HelperReturn(t)
                    /\ UNCHANGED ret
               ELSE /\ ret' = [ret EXCEPT ![t] = out]
                    /\ pc' = [pc EXCEPT ![t] = "idle"]
                    /\ op' = [op EXCEPT ![t] = NoOp]
                    /\ lockHolder' = GuardDrop(t, out)
    /\ UNCHANGED <<kind, live, native, poisoned, dropDeletes, explicitDel, lastSet>>

\* An engine and the ResultIterator it hands out, used from two threads
\* through the stepped methods and the calls that can run between the steps.
StepMethods == {"set_image", "clear", "get_loaded_languages", "adapt_to_word_str",
                "next_word"} \cup WordGetters

NextSteps ==
    \/ Construct(Engine) /\ kind'[Engine] = "api" /\ UNCHANGED callVars
    \/ (\E t \in Threads, h \in Handles, m \in StepMethods : BeginCall(t, h, m))
          /\ UNCHANGED callVars
    \/ (\E t \in Threads :
          /\ kind[PageHandle] = "none" /\ kind[IterHandle] = "none"
          /\ BeginCall(t, Engine, "get_iterators"))
          /\ UNCHANGED callVars
    \/ (\E t \in Threads, m \in NulArgMethods : BeginNulArg(t, Engine, m))
          /\ UNCHANGED callVars
    \/ (\E t \in Threads : Acquire(t)) /\ UNCHANGED callVars
    \/ (\E t \in Threads :
          /\ op[t].name \notin SteppedCalls
          /\ ~(ConvertsUnderLock(op[t].name) /\ op[t].arg = "nul")
          /\ Finish(t))
          /\ UNCHANGED callVars
    \/ (\E t \in Threads : NulPanicLocked(t)) /\ UNCHANGED callVars
    \/ (\E t \in Threads : IteratorsStep(t)) /\ UNCHANGED callVars
    \/ (\E t \in Threads : WordStep(t)) /\ UNCHANGED callVars

SpecSteps == Init /\ [][NextSteps]_vars

TypeOK ==
    /\ kind \in [Handles -> Kinds \cup {"none"}]
    /\ live \in [Handles -> 0..MaxOwners]
    /\ lockHolder \in [Handles -> Threads \cup {NoThread}]
    /\ poisoned \in [Handles -> BOOLEAN]
    /\ dropDeletes \in [Handles -> 0..MaxOwners]
    /\ pc \in [Threads -> {"idle", "acq", "acq2", "native"}]

(* ---------------------------------------------------------------------- *)
(* Sequential calls on one engine: host-side checks, native results and    *)
(* the conversion of statuses and native buffers                           *)
(* ---------------------------------------------------------------------- *)

\* most entries a native array holds, terminator included
MaxLen == 3

\* the -1 that ends a native confidence array
Sentinel == -1

\* calls that receive a native buffer the caller has to release
TextGetters == {"get_utf8_text", "iter_get_utf8_text"}
ConfidenceGetters == {"get_word_confidences", "all_word_confidences"}
LanguageGetters == {"get_loaded_languages", "get_available_languages"}
BufferCalls == TextGetters \cup ConfidenceGetters \cup LanguageGetters

\* calls that wrap a native handle the engine hands out, and the renderer
\* constructors
EngineFactories == {"get_iterator", "get_mutable_iterator", "get_page_iterator",
                    "analyse_layout", "analyze_layout"}
RendererFactories == {"new_text_renderer", "new_hocr_renderer", "new_pdf_renderer"}
Factories == EngineFactories \cup RendererFactories

\* the document calls of TessResultRenderer
RendererCalls == {"begin_document", "add_image", "end_document"}

\* calls that need an initialised engine
RecognitionCalls == {"recognize", "get_utf8_text", "get_iterator", "get_word_confidences"}

\* set_image arguments: width and height, bytes per pixel, bytes per line and
\* the length of the pixel slice
Dims == {-1, 0, 1, 2}
PixelSizes == {0, 1}
LineSizes == {0, 1, 2}
SliceLens == {0, 2}

CallRec(m, a, v) ==
    [name |-> m, arg |-> a, val |-> v,
     width |-> 0, height |-> 0, bpp |-> 0, bpl |-> 0, len |-> 0]

CallOps ==
    {CallRec(m, a, 0) : m \in InitVariants, a \in {"valid", "invalid"}}
    \cup {CallRec(m, a, v) : m \in VarSetters, a \in VarNames, v \in SetValues}
    \cup {CallRec(m, "-", 0) : m \in {"recognize", "get_iterator"} \cup BufferCalls}
    \cup {CallRec(m, "-", 0) : m \in Factories \cup {"add_image", "end_document"}}
    \cup {CallRec("begin_document", a, 0) : a \in {"plain", "nul"}}
    \cup {CallRec("get_iterators", "-", 0)}
    \cup {[name |-> "set_image", arg |-> "-", val |-> 0,
           width |-> w, height |-> h, bpp |-> p, bpl |-> l, len |-> n] :
             w \in Dims, h \in Dims, p \in PixelSizes, l \in LineSizes, n \in SliceLens}

\* native results
StatusRaw(s) == [status |-> s, null |-> FALSE, data |-> <<>>]
NullRaw == [status |-> 0, null |-> TRUE, data |-> <<>>]
BufRaw(d) == [status |-> 0, null |-> FALSE, data |-> d]

\* sequences over S of length 1..n
SeqsUpTo(S, n) == UNION {[1..k -> S] : k \in 1..n}

\* a native string: two valid ones and one that is not valid UTF-8
TextValues == {0, 1, InvalidUtf8}
\* the memory of a native int array: it holds a -1; what lies behind the first
\* -1 is whatever the allocation holds
IntArrays == {s \in SeqsUpTo({Sentinel, 0, 1}, MaxLen) : \E i \in 1..Len(s) : s[i] = Sentinel}
\* the memory of a native char** array: it holds a NULL entry
StrArrays == {s \in SeqsUpTo({Null} \cup TextValues, MaxLen) : \E i \in 1..Len(s) : s[i] = Null}

\* what the native entry point of call o hands back on an engine in state n,
\* and the state it leaves.  An engine that is not initialised reports
\* failure: a non-zero status or a null pointer.
NativeResult(o, n) ==
    CASE o.name \in InitVariants \cup VarSetters \cup {"set_image"} ->
           {[raw |-> StatusRaw(c.raw), nat |-> c.nat] : c \in NativeCall(o, n)}
      [] o.name = "recognize" ->
           {[raw |-> StatusRaw(r), nat |-> n] :
              r \in IF n.inited /\ n.image THEN {0, Null} ELSE {Null}}
      [] o.name \in EngineFactories ->
           {[raw |-> r, nat |-> n] :
              r \in IF n.inited THEN {NullRaw, BufRaw(<<>>)} ELSE {NullRaw}}
      [] o.name \in RendererFactories ->
           {[raw |-> r, nat |-> n] : r \in {NullRaw, BufRaw(<<>>)}}
      [] o.name \in RendererCalls ->
           {[raw |-> StatusRaw(r), nat |-> n] : r \in {0, 1}}
      [] o.name = "get_iterators" ->
           \* the status of the recognize step and, when it is 0, the page and
           \* the result iterator pointers (Null or not)
           {[raw |-> [status |-> Null, null |-> FALSE, data |-> <<>>], nat |-> n]}
           \cup (IF n.inited /\ n.image
                 THEN {[raw |-> [status |-> 0, null |-> FALSE, data |-> <<pg, rs>>],
                        nat |-> n] : pg \in {Null, 1}, rs \in {Null, 1}}
                 ELSE {})
      [] o.name = "get_utf8_text" ->
           {[raw |-> r, nat |-> n] :
              r \in IF n.inited THEN {NullRaw} \cup {BufRaw(<<c>>) : c \in TextValues}
                                ELSE {NullRaw}}
      [] o.name = "iter_get_utf8_text" ->
           {[raw |-> r, nat |-> n] : r \in {NullRaw} \cup {BufRaw(<<c>>) : c \in TextValues}}
      [] o.name \in ConfidenceGetters ->
           {[raw |-> r, nat |-> n] :
              r \in IF n.inited THEN {NullRaw} \cup {BufRaw(s) : s \in IntArrays}
                                ELSE {NullRaw}}
      [] OTHER ->
           {[raw |-> r, nat |-> n] : r \in {NullRaw} \cup {BufRaw(s) : s \in StrArrays}}

\* results of a sequential call; the value is a sequence, <<>> for ()
COk(v) == [tag |-> "Ok", err |-> "-", val |-> v]
CErr(e) == [tag |-> "Err", err |-> e, val |-> <<>>]
Crash == [tag |-> "Crash", err |-> "null dereference", val |-> <<>>]

\* n reads of the native buffer
Reads(n) == [k \in 1..n |-> "read"]

\* get_utf8_text of TesseractAPI (nullErr = OcrError) and of the iterators
\* (nullErr = NullPointerError): null check, CStr::from_ptr, to_str()?,
\* to_owned, TessDeleteText
TextToRust(raw, nullErr) ==
    IF raw.null
    THEN [ret |-> CErr(nullErr), events |-> <<>>]
    ELSE IF raw.data[1] = InvalidUtf8
         THEN [ret |-> CErr("Utf8Error"), events |-> <<"read">>]
         ELSE [ret |-> COk(raw.data), events |-> <<"read", "free">>]

\* faulty variant: the loop pushing the terminator before it stops
RECURSIVE ConfidenceLoopInclusive(_, _, _)
ConfidenceLoopInclusive(data, i, confidences) ==
    IF data[i] # Sentinel
    THEN ConfidenceLoopInclusive(data, i + 1, Append(confidences, data[i]))
    ELSE Append(confidences, data[i])

\* while *confidences_ptr.offset(i) != -1 { confidences.push(..); i += 1 }
RECURSIVE ConfidenceLoop(_, _, _)
ConfidenceLoop(data, i, confidences) ==
    IF data[i] # Sentinel
    THEN ConfidenceLoop(data, i + 1, Append(confidences, data[i]))
    ELSE confidences

\* get_word_confidences (no null check, no TessDeleteIntArray) and
\* all_word_confidences (null check, TessDeleteIntArray).  Reading through a
\* null pointer is undefined: the process may crash or go on with garbage.
IntArrayToRust(raw, checksNull, frees) ==
    IF raw.null
    THEN IF checksNull
         THEN {[ret |-> CErr("OcrError"), events |-> <<>>]}
         ELSE {[ret |-> Crash, events |-> <<"nullread">>]}
              \cup {[ret |-> COk(s), events |-> <<"nullread">>] : s \in {<<>>, <<0>>}}
    ELSE LET c == ConfidenceLoop(raw.data, 1, <<>>)
         IN {[ret |-> COk(c),
              events |-> Reads(2 * Len(c) + 1) \o (IF frees THEN <<"free">> ELSE <<>>)]}

\* faulty variant: the loop dropping an entry that is not valid UTF-8
RECURSIVE StringVecLoopSkipInvalid(_, _, _)
StringVecLoopSkipInvalid(vec, i, result) ==
    IF vec[i] = Null
    THEN [ret |-> COk(result), events |-> Reads(2 * i - 1) \o <<"free">>]
    ELSE IF vec[i] = InvalidUtf8
         THEN StringVecLoopSkipInvalid(vec, i + 1, result)
         ELSE StringVecLoopSkipInvalid(vec, i + 1, Append(result, vec[i]))

\* the loop of string_vec_to_rust: break at the first null entry, return
\* early from to_str()? (before TessDeleteTextArray), else push and go on
RECURSIVE StringVecLoop(_, _, _)
StringVecLoop(vec, i, result) ==
    IF vec[i] = Null
    THEN [ret |-> COk(result), events |-> Reads(2 * i - 1) \o <<"free">>]
    ELSE IF vec[i] = InvalidUtf8
         THEN [ret |-> CErr("Utf8Error"), events |-> Reads(2 * i)]
         ELSE StringVecLoop(vec, i + 1, Append(result, vec[i]))

\* string_vec_to_rust, called by get_loaded_languages and
\* get_available_languages
StringVecToRust(raw) ==
    IF raw.null
    THEN [ret |-> CErr("NullPointerError"), events |-> <<>>]
    ELSE StringVecLoop(raw.data, 1, <<>>)

\* faulty variant: a factory wrapping whatever pointer it is given
HandleToWrapperUnchecked(raw) ==
    [ret |-> COk(<<>>), events |-> <<"wrap">>]

\* if iterator.is_null() { Err(NullPointerError) } else { Ok(..::new(iterator)) }
HandleToWrapper(raw) ==
    IF raw.null
    THEN [ret |-> CErr("NullPointerError"), events |-> <<>>]
    ELSE [ret |-> COk(<<>>), events |-> <<"wrap">>]

\* the plain bool a renderer method returns:  native result != 0
CBool(b) == [tag |-> "Val", err |-> "-", val |-> <<B2I(b)>>]
\* a panic that leaves the method
CPanic(e) == [tag |-> "Panic", err |-> e, val |-> <<>>]

\* faulty variant: get_iterators returning its error without deleting the
\* iterator it did get
GetIteratorsToRustLeaky(raw) ==
    IF raw.status # 0
    THEN [ret |-> CErr("OcrError"), events |-> <<"recognize">>]
    ELSE IF raw.data[1] = Null \/ raw.data[2] = Null
         THEN [ret |-> CErr("NullPointerError"),
               events |-> <<"recognize", "analyse_layout", "get_iterator">>]
         ELSE [ret |-> COk(<<>>),
               events |-> <<"recognize", "analyse_layout", "get_iterator",
                            "wrap_page", "wrap_result">>]

\* get_iterators: self.recognize()?, then TessBaseAPIAnalyseLayout and
\* TessBaseAPIGetIterator; if one pointer is null the other is deleted and
\* NullPointerError returned, else each pointer goes into its wrapper
GetIteratorsToRust(raw) ==
    IF raw.status # 0
    THEN [ret |-> CErr("OcrError"), events |-> <<"recognize">>]
    ELSE IF raw.data[1] = Null \/ raw.data[2] = Null
         THEN [ret |-> CErr("NullPointerError"),
               events |-> <<"recognize", "analyse_layout", "get_iterator">>
                          \o (IF raw.data[1] # Null THEN <<"delete_page">> ELSE <<>>)
                          \o (IF raw.data[2] # Null THEN <<"delete_result">> ELSE <<>>)]
         ELSE [ret |-> COk(<<>>),
               events |-> <<"recognize", "analyse_layout", "get_iterator",
                            "wrap_page", "wrap_result">>]

\* the unit result of a status-returning method
UnitRet(w) == [tag |-> w.tag, err |-> w.err, val |-> <<>>]

\* the outcomes of call o once its native entry point has returned raw
Convert(o, raw) ==
    CASE o.name \in InitVariants \cup VarSetters \cup {"set_image"} ->
           {[ret |-> UnitRet(Wrap(o, "api", raw.status)), events |-> <<>>]}
      [] o.name = "recognize" ->
           {[ret |-> IF raw.status # 0 THEN CErr("OcrError") ELSE COk(<<>>),
             events |-> <<>>]}
      [] o.name \in Factories -> {HandleToWrapper(raw)}
      [] o.name \in RendererCalls ->
           {[ret |-> CBool(raw.status # 0), events |-> <<>>]}
      [] o.name = "get_iterators" -> {GetIteratorsToRust(raw)}
      [] o.name = "get_utf8_text" -> {TextToRust(raw, "OcrError")}
      [] o.name = "iter_get_utf8_text" -> {TextToRust(raw, "NullPointerError")}
      [] o.name = "get_word_confidences" -> IntArrayToRust(raw, FALSE, FALSE)
      [] o.name = "all_word_confidences" -> IntArrayToRust(raw, TRUE, TRUE)
      [] OTHER -> {StringVecToRust(raw)}

\* faulty variant: set_image rejecting dimensions that are not positive
HostCheckDimensions(o) ==
    IF o.name = "set_image" /\ (o.width <= 0 \/ o.height <= 0)
    THEN "InvalidDimensions" ELSE "ok"

\* faulty variant: a renderer that tracks the document and refuses
\* end_document unless the call before it opened or filled one
HostCheckRendererOrder(o) ==
    IF o.name = "end_document" /\ cop.name \notin {"begin_document", "add_image"}
    THEN "InvalidParameterError"
    ELSE "ok"

\* the error a method returns before it makes its native call, "ok" if it
\* makes the call: no method of TesseractAPI looks at its arguments
HostCheck(o) == "ok"

\* CString::new(title).unwrap() in begin_document panics on an interior NUL
ArgPanics(o) == o.name = "begin_document" /\ o.arg = "nul"

\* what a call does before its native call: panic on an argument, return a
\* host-side error, or go on to the native call
Enter(o) ==
    IF ArgPanics(o)
    THEN /\ cpc' = "idle"
         /\ cres' = [ret |-> CPanic("NulError"), events |-> <<>>, calls |-> 0]
    ELSE IF HostCheck(o) = "ok"
         THEN /\ cpc' = "native"
              /\ cres' = NoRes
         ELSE /\ cpc' = "idle"
              /\ cres' = [ret |-> CErr(HostCheck(o)), events |-> <<>>, calls |-> 0]

\* a method of the engine is called
CallBegin ==
    /\ cpc = "idle"
    /\ kind[Engine] = "api"
    /\ \E o \in CallOps :
         /\ cop' = o
         /\ Enter(o)
    /\ craw' = NoRaw
    /\ cprev' = NoPrev
    /\ UNCHANGED <<kind, live, lockHolder, poisoned, dropDeletes, explicitDel,
                   native, lastSet, pc, op, ret, iter>>

\* the lock is held and the native entry point runs
CallNative ==
    /\ cpc = "native"
    /\ \E r \in NativeResult(cop, native[Engine]) :
         /\ craw' = r.raw
         /\ native' = [native EXCEPT ![Engine] = r.nat]
    /\ cres' = [cres EXCEPT !.calls = @ + 1]
    /\ cpc' = "convert"
    /\ UNCHANGED <<kind, live, lockHolder, poisoned, dropDeletes, explicitDel,
                   lastSet, pc, op, ret, cop, cprev, iter>>

\* the native result is converted and the method returns
CallReturn ==
    /\ cpc = "convert"
    /\ \E c \in Convert(cop, craw) :
         cres' = [ret |-> c.ret, events |-> c.events, calls |-> cres.calls]
    /\ cpc' = "idle"
    /\ UNCHANGED <<kind, live, lockHolder, poisoned, dropDeletes, explicitDel,
                   native, lastSet, pc, op, ret, cop, craw, cprev, iter>>

\* calls that leave the engine as they found it: made again with nothing in
\* between, the native entry point hands back the same content
ReadOnlyCalls == ConfidenceGetters

\* the caller makes the call it has just returned from once more, with no
\* other call in between
CallRepeat ==
    /\ cpc = "idle"
    /\ cres.ret.tag \notin {"none", "Panic", "Crash"}
    /\ cprev = NoPrev
    /\ cprev' = cres.ret
    /\ IF cop.name \in ReadOnlyCalls /\ cres.calls = 1
       THEN /\ cpc' = "convert"
            /\ cres' = [NoRes EXCEPT !.calls = 1]
            /\ craw' = craw
       ELSE /\ Enter(cop)
            /\ craw' = NoRaw
    /\ UNCHANGED <<kind, live, lockHolder, poisoned, dropDeletes, explicitDel,
                   native, lastSet, pc, op, ret, cop, iter>>

\* One caller making one engine call after another.
NextCalls ==
    \/ Construct(Engine) /\ kind'[Engine] = "api" /\ UNCHANGED callVars
    \/ CallBegin
    \/ CallNative
    \/ CallReturn

SpecCalls == Init /\ [][NextCalls]_vars

\* The same caller, also making a call twice in a row: the calls that set
\* the engine up, the confidence getters and the renderer's document calls.
RepeatScope == {"init", "recognize"} \cup ConfidenceGetters \cup RendererCalls

NextRepeat ==
    \/ Construct(Engine) /\ kind'[Engine] = "api" /\ UNCHANGED callVars
    \/ CallBegin /\ cop'.name \in RepeatScope
    \/ CallNative
    \/ CallReturn
    \/ CallRepeat

SpecRepeat == Init /\ [][NextRepeat]_vars

(* ---------------------------------------------------------------------- *)
(* Layout iteration: PageIterator and ResultIterator walked by one caller  *)
(* ---------------------------------------------------------------------- *)

\* granularity levels: RIL_TEXTLINE and RIL_WORD
Levels == {"line", "word"}

\* a page is its text lines, each given by its number of words
RECURSIVE WordsIn(_)
WordsIn(page) == IF page = <<>> THEN 0 ELSE Head(page) + WordsIn(Tail(page))

Pages == {p \in SeqsUpTo(1..MaxWords, MaxWords) : WordsIn(p) <= MaxWords}

\* the positions (word numbers) at which the nodes of a level start
StartsOf(page, level) ==
    IF level = "word"
    THEN 1..WordsIn(page)
    ELSE {1 + WordsIn(SubSeq(page, 1, k - 1)) : k \in 1..Len(page)}

\* the native iterator is past the last node
AtEnd(it) == it.pos > WordsIn(it.page)

\* TessPageIteratorNext / TessResultIteratorNext: move to the start of the
\* next node of the level and report 1, or move past the end and report 0
NativeNext(page, pos, level) ==
    LET later == {q \in StartsOf(page, level) : q > pos}
    IN IF pos > WordsIn(page) \/ later = {}
       THEN [pos |-> WordsIn(page) + 1, more |-> 0]
       ELSE [pos |-> CHOOSE q \in later : \A r \in later : q <= r, more |-> 1]

\* faulty variant: every next asking for the word level, as next_word does
LevelArgAlwaysWord(level) == "word"

\* the level handed to the native call:  level as c_int
LevelArg(level) == level

\* faulty variant: next on an iterator that is past its last node starts over
EntryPointRewinds(m) ==
    IF m = "begin" \/ AtEnd(iter) THEN "Begin" ELSE "Next"

\* the native entry point a method calls
EntryPoint(m) == IF m = "begin" THEN "Begin" ELSE "Next"

\* methods that move an iterator: ResultIterator has no begin
MovesOf(k) == IF k = "page" THEN {"begin", "next"} ELSE {"next"}

\* get_page_iterator / get_iterator hand out a new iterator, positioned at the
\* first node of the page
IterFresh ==
    /\ \E k \in {"page", "result"}, p \in Pages :
         iter' = [kind |-> k, page |-> p, pos |-> 1, visited |-> <<>>,
                  level |-> "-", lastOp |-> "new", last |-> FALSE, hadFalse |-> FALSE]
    /\ UNCHANGED <<kind, live, lockHolder, poisoned, dropDeletes, explicitDel,
                   native, lastSet, pc, op, ret, cpc, cop, craw, cres, cprev>>

\* begin() or next(level) on the iterator: lock, one native call, return
IterCall(m, level) ==
    /\ iter.kind # "none"
    /\ m \in MovesOf(iter.kind)
    /\ IF EntryPoint(m) = "Begin"
       THEN iter' = [iter EXCEPT !.pos = 1, !.visited = <<>>, !.level = "-",
                                 !.lastOp = m, !.last = FALSE]
       ELSE LET r == NativeNext(iter.page, iter.pos, LevelArg(level))
                b == r.more # 0
            IN iter' = [iter EXCEPT
                          !.pos = r.pos,
                          !.visited = IF b THEN Append(@, r.pos) ELSE @,
                          !.level = IF @ \in {"-", level} THEN level ELSE "mixed",
                          !.lastOp = m,
                          !.last = b,
                          !.hadFalse = @ \/ ~b]
    /\ UNCHANGED <<kind, live, lockHolder, poisoned, dropDeletes, explicitDel,
                   native, lastSet, pc, op, ret, cpc, cop, craw, cres, cprev>>

NextIter ==
    \/ IterFresh
    \/ \E m \in {"begin", "next"}, l \in Levels : IterCall(m, l)

SpecIter == Init /\ [][NextIter]_vars

(* ---------------------------------------------------------------------- *)
(* Properties                                                              *)
(* ---------------------------------------------------------------------- *)

\* thread t is inside a native call that was passed handle h
InNative(t, h) == pc[t] = "native" /\ h \in NativeArgs(op[t])

\* thread t waits in Mutex::lock for a guard another thread holds
Blocked(t) == pc[t] \in {"acq", "acq2"} /\ ~LockFree(Wanted(t))

LockErrors == {"MutexLockError", "MutexError"}

\* C1: the native delete entry point runs at most once per handle, and only
\* when the last shared owner is dropped: a handle that Drop has deleted has
\* no live wrapper left.
C1_DeleteOnceByLastOwner ==
    \A h \in Handles :
        /\ dropDeletes[h] <= 1
        /\ dropDeletes[h] >= 1 => live[h] = 0

\* C2: at most one native call is in progress on a handle at any time, and
\* the thread making it holds the handle's lock.
C2_MutualExclusion ==
    \A h \in Handles :
        /\ Cardinality({t \in Threads : InNative(t, h)}) <= 1
        /\ \A t \in Threads : InNative(t, h) => lockHolder[h] = t

\* a native call is in progress on a handle while another thread waits for
\* that handle's lock
C2_Witness ==
    \E h \in Handles, t \in Threads, u \in Threads :
        /\ t # u
        /\ InNative(t, h)
        /\ Blocked(u) /\ Wanted(u) = h

\* C3: no native call is passed a MutableIterator handle after a native
\* delete entry point has run on that handle.
C3_NoNativeCallAfterDelete ==
    \A t \in Threads, h \in Handles :
        (InNative(t, h) /\ kind[h] = "mutable") => ~Released(h)

\* C4: a method call that finds the handle's lock poisoned returns a
\* lock-acquisition error to its caller (it does not panic), for every
\* wrapper type.
C4_PoisonedCallReturnsLockError ==
    [][\A t \in Threads :
         (/\ pc[t] \in {"acq", "acq2"}
          /\ op[t].name # "drop"
          /\ poisoned[Wanted(t)]
          /\ pc'[t] = "idle")
         => (ret'[t].tag = "Err" /\ ret'[t].err \in LockErrors)]_vars

\* C5: Drop of a wrapper whose lock is poisoned skips the native delete call
\* and does not panic, for every wrapper type.
C5_PoisonedDropLeaksQuietly ==
    [][\A t \in Threads :
         (/\ pc[t] = "acq"
          /\ op[t].name = "drop"
          /\ poisoned[op[t].h]
          /\ pc'[t] = "idle")
         => (ret'[t].tag # "Panic" /\ dropDeletes' = dropDeletes)]_vars

\* C6: a call that fails on a poisoned lock leaves the poison flag of every
\* other handle as it was; add_image on a poisoned renderer leaves the
\* engine's lock unpoisoned.
C6_PoisonStaysOnItsHandle ==
    [][\A t \in Threads :
         (/\ pc[t] \in {"acq", "acq2"}
          /\ poisoned[Wanted(t)]
          /\ pc'[t] = "idle")
         => \A h \in Handles \ {Wanted(t)} : poisoned'[h] = poisoned[h]]_vars

\* C7: no set of threads waits on each other's locks; a thread holds two
\* locks only inside add_image, and add_image holds the renderer's lock only
\* after it has the engine's.
C7_NoDeadlockLockOrder ==
    /\ \A S \in (SUBSET Threads) \ {{}} :
         ~(\A t \in S : Blocked(t) /\ lockHolder[Wanted(t)] \in S)
    /\ \A t \in Threads :
         Cardinality(HeldBy(t)) >= 2 =>
            (op[t].name = "add_image" /\ HeldBy(t) = {op[t].h, op[t].h2})
    /\ \A t \in Threads :
         (op[t].name = "add_image" /\ lockHolder[op[t].h] = t)
            => lockHolder[op[t].h2] = t

\* two threads are in add_image with the same engine and different
\* renderers: one holds both locks, the other waits for the engine's
C7_Witness ==
    \E t \in Threads, u \in Threads :
        /\ t # u
        /\ op[t].name = "add_image" /\ op[u].name = "add_image"
        /\ op[t].h2 = op[u].h2 /\ op[t].h # op[u].h
        /\ pc[t] = "native" /\ Cardinality(HeldBy(t)) = 2
        /\ Blocked(u) /\ Wanted(u) = op[u].h2

\* what a getter returns when it runs alone on the engine in its current state
SerialReturns(o) == {Wrap(o, "api", c.raw) : c \in NativeCall(o, native[o.h])}

\* C8: every configuration getter called on a shared engine returns the value
\* it would return if the calls ran one after another.
C8_GetterReturnsSerialValue ==
    [][\A t \in Threads :
         (/\ pc[t] = "native"
          /\ op[t].name \in EngineGetters
          /\ pc'[t] = "idle"
          /\ ret'[t].tag # "Panic")
         => ret'[t] \in SerialReturns(op[t])]_vars

\* C9: after set_variable has succeeded through one wrapper of an engine, a
\* get of that variable through any wrapper of the engine returns the value
\* that was set.
C9_SetVisibleThroughClones ==
    [][\A t \in Threads :
         (/\ pc[t] = "native"
          /\ op[t].name = "get_string_variable" /\ op[t].arg = "known"
          /\ lastSet[op[t].h].set
          /\ pc'[t] = "idle"
          /\ ret'[t].tag # "Panic")
         => ret'[t] = OkRet(lastSet[op[t].h].val)]_vars

\* C10: a thread that has returned from a wrapper method, with Ok or with an
\* early Err, holds no handle's lock.
C10_LockReleasedOnReturn ==
    \A t \in Threads : pc[t] = "idle" => HeldBy(t) = {}

\* a call returned an early Err and a call of another thread then took the
\* same handle's lock
C10_Witness ==
    \E t \in Threads, u \in Threads :
        /\ t # u
        /\ pc[t] = "idle"
        /\ ret[t].tag = "Err"
        /\ ret[t].err \in {"GetVariableError", "Utf8Error", "InitError", "SetVariableError"}
        /\ pc[u] = "native" /\ lockHolder[Engine] = u

\* the sequential caller is back from a call
Returned == cpc = "idle" /\ cres.ret.tag # "none"

\* native deallocation calls among the events of a call
Frees(events) == Cardinality({i \in DOMAIN events : events[i] = "free"})

\* a read of the buffer that follows its deallocation
ReadAfterFree(events) ==
    \E i \in DOMAIN events, j \in DOMAIN events :
        i < j /\ events[i] = "free" /\ events[j] = "read"

\* the entries of s in front of the first x
BeforeFirst(s, x) ==
    SubSeq(s, 1, (CHOOSE i \in 1..Len(s) :
                     s[i] = x /\ \A j \in 1..(i - 1) : s[j] # x) - 1)

\* C11: every call that received a native buffer has run the matching native
\* deallocation function exactly once when it returns, on the invalid-UTF-8
\* path too, and has not read the buffer after that.
C11_BufferFreedOnceAfterCopy ==
    (Returned /\ cop.name \in BufferCalls /\ ~craw.null)
        => (Frees(cres.events) = 1 /\ ~ReadAfterFree(cres.events))

\* C12: a buffer-converting call returns NullPointerError for a null native
\* result without reading through it, and Utf8Error for a result that is not
\* valid UTF-8.
C12_NullAndUtf8Checked ==
    (Returned /\ cop.name \in BufferCalls)
        => /\ craw.null =>
                (/\ cres.ret = CErr("NullPointerError")
                 /\ \A i \in DOMAIN cres.events : cres.events[i] # "nullread")
           /\ (cop.name \in TextGetters /\ ~craw.null /\ craw.data[1] = InvalidUtf8)
                => cres.ret = CErr("Utf8Error")

\* C13: for a native int array that holds a -1, get_word_confidences and
\* all_word_confidences return exactly the elements in front of the first -1,
\* in order.
C13_ConfidencesStopAtSentinel ==
    (Returned /\ cop.name \in ConfidenceGetters /\ ~craw.null)
        => cres.ret = COk(BeforeFirst(craw.data, Sentinel))

\* a confidence getter returned from an array with an element in front of the
\* first -1 and an element behind it
C13_Witness ==
    /\ Returned /\ cop.name \in ConfidenceGetters /\ ~craw.null
    /\ Len(craw.data) = 3 /\ craw.data[2] = Sentinel /\ craw.data[1] # Sentinel
    /\ cres.ret = COk(<<craw.data[1]>>)

\* C14 as stated: for every null-terminated native array of string pointers
\* the language getters return exactly the strings in front of the first null
\* entry, in order.
C14_StringsStopAtNull ==
    (Returned /\ cop.name \in LanguageGetters /\ ~craw.null)
        => cres.ret = COk(BeforeFirst(craw.data, Null))

\* C14 amended: the language getters return exactly the strings in front of
\* the first null entry, in order, when each of them is valid UTF-8, and
\* Utf8Error when one of them is not.
C14_StringsStopAtNullIfUtf8 ==
    (Returned /\ cop.name \in LanguageGetters /\ ~craw.null)
        => LET strs == BeforeFirst(craw.data, Null)
           IN IF \E i \in DOMAIN strs : strs[i] = InvalidUtf8
              THEN cres.ret = CErr("Utf8Error")
              ELSE cres.ret = COk(strs)

\* a language getter returned from an array with a string in front of the
\* first null entry and an entry behind it
C14_Witness ==
    /\ Returned /\ cop.name \in LanguageGetters /\ ~craw.null
    /\ Len(craw.data) = 3 /\ craw.data[2] = Null /\ craw.data[1] \in {0, 1}
    /\ cres.ret = COk(<<craw.data[1]>>)

\* C15: every init variant that got the lock returns Err(InitError) exactly
\* when the native status is non-zero and Ok(()) exactly when it is zero.
C15_InitErrorIffNonZero ==
    (Returned /\ cop.name \in InitVariants)
        => /\ cres.ret = CErr("InitError") <=> craw.status # 0
           /\ cres.ret = COk(<<>>) <=> craw.status = 0

\* an init variant other than init returned InitError for a positive status
C15_Witness ==
    /\ Returned /\ cop.name \in InitVariants \ {"init"}
    /\ craw.status > 0
    /\ cres.ret = CErr("InitError")

\* C16: set_variable and set_debug_variable return Err(SetVariableError)
\* exactly when the native status differs from 1 and Ok(()) otherwise: an
\* unknown name is an error, a known name a success.
C16_SetVariableErrorIffNotOne ==
    (Returned /\ cop.name \in VarSetters)
        => /\ cres.ret = CErr("SetVariableError") <=> craw.status # 1
           /\ cres.ret = COk(<<>>) <=> craw.status = 1
           /\ cop.arg = "unknown" => cres.ret = CErr("SetVariableError")
           /\ cop.arg = "known" => cres.ret = COk(<<>>)

\* set_debug_variable returned SetVariableError for an unknown name
C16_Witness ==
    /\ Returned /\ cop.name = "set_debug_variable" /\ cop.arg = "unknown"
    /\ craw.status = 0
    /\ cres.ret = CErr("SetVariableError")

\* C17: every typed getter returns Err(GetVariableError) when the engine has
\* no variable of the requested name.
C17_FailedLookupIsGetVariableError ==
    [][\A t \in Threads :
         (/\ pc[t] = "native"
          /\ op[t].name \in EngineGetters /\ op[t].arg = "unknown"
          /\ ~Released(op[t].h)
          /\ pc'[t] = "idle"
          /\ ret'[t].tag # "Panic")
         => ret'[t] = ErrRet("GetVariableError")]_vars

\* the set_image arguments the tests take to be acceptable
ImageArgsValid(o) ==
    /\ o.width > 0 /\ o.height > 0
    /\ o.bpp > 0
    /\ o.bpl >= o.width * o.bpp
    /\ o.len > 0

\* C18: set_image returns an error and hands nothing to the engine when width
\* or height is not positive, bytes_per_pixel is zero, bytes_per_line is less
\* than width times bytes_per_pixel, or the pixel buffer is empty.
C18_SetImageRejectsBadArgs ==
    (Returned /\ cop.name = "set_image" /\ ~ImageArgsValid(cop))
        => (cres.ret.tag = "Err" /\ cres.calls = 0)

OrderedStarts(page, level) ==
    LET S == StartsOf(page, level)
    IN [k \in 1..Cardinality(S) |->
          CHOOSE q \in S : Cardinality({r \in S : r < q}) = k - 1]

\* C21: next(level) called repeatedly with one level, from a fresh iterator,
\* visits the nodes of that level in order without skipping or repeating one,
\* has visited all of them when it returns false, and returns false on every
\* further call.
C21_NextVisitsEachNodeOnce ==
    /\ [](\/ iter.lastOp # "next"
          \/ iter.level \notin Levels
          \/ LET starts == OrderedStarts(iter.page, iter.level)
                 seen == <<1>> \o iter.visited
             IN /\ Len(seen) <= Len(starts)
                /\ seen = SubSeq(starts, 1, Len(seen))
                /\ ~iter.last => (seen = starts /\ AtEnd(iter)))
    /\ [][(AtEnd(iter) /\ iter'.lastOp = "next") => (AtEnd(iter') /\ ~iter'.last)]_vars

\* next(line) has walked a page of two lines with three words and returned
\* false
C21_Witness ==
    /\ iter.lastOp = "next" /\ iter.level = "line" /\ ~iter.last
    /\ Len(iter.page) = 2 /\ WordsIn(iter.page) = 3
    /\ Len(iter.visited) = 1

\* C22 as stated: once next has returned false on an iterator wrapper, no
\* operation on that wrapper, begin included, makes it positioned again.
C22_ExhaustedIsTerminal ==
    iter.hadFalse => AtEnd(iter)

\* C22 amended: an exhausted iterator wrapper stays exhausted under next; it
\* is positioned again only by PageIterator::begin, which moves it to the
\* first node, or by obtaining a new iterator.
C22_ExhaustedLeftOnlyByBegin ==
    [][(AtEnd(iter) /\ ~AtEnd(iter'))
          => (/\ iter'.lastOp \in {"begin", "new"}
              /\ iter'.pos = 1
              /\ iter'.lastOp = "begin" => iter.kind = "page")]_vars

\* begin was called on a PageIterator that had returned false, and the
\* iterator is at the first node
C22_Witness ==
    /\ iter.kind = "page" /\ iter.hadFalse
    /\ iter.lastOp = "begin" /\ iter.pos = 1

\* C23 as stated: begin_document, add_image and end_document always return a
\* bool and never leave by a panic, also for a title with an interior NUL.
C23_RendererCallsReturnBool ==
    (Returned /\ cop.name \in RendererCalls)
        => (cres.ret.tag = "Val" /\ cres.ret.val \in {<<0>>, <<1>>})

C27_LockFailureIsMutexLockError ==
    \A t \in Threads :
        (ret[t].tag = "Err" /\ ret[t].err \in LockErrors)
            => ret[t].err = "MutexLockError"

\* C28: when the native library hands back a null handle, get_iterator,
\* get_mutable_iterator, get_page_iterator, analyse_layout, analyze_layout and
\* the three renderer constructors return Err(NullPointerError) and construct
\* no wrapper.
C28_NullHandleIsNullPointerError ==
    (Returned /\ cop.name \in Factories /\ craw.null)
        => /\ cres.ret = CErr("NullPointerError")
           /\ \A i \in DOMAIN cres.events : cres.events[i] # "wrap"

\* a constructor has returned its error for a null handle
C28_Witness ==
    /\ Returned
    /\ cop.name = "new_pdf_renderer"
    /\ craw.null
    /\ cres.ret.tag = "Err"
    /\ cres.calls = 1

\* C29: for a title the host can pass on, a renderer call is rejected for no
\* call order (the call before it may be any call, the same one included),
\* makes exactly one native call and returns exactly the native boolean.
C29_RendererReturnsNativeBool ==
    (Returned /\ cop.name \in RendererCalls /\ ~ArgPanics(cop))
        => /\ cres.calls = 1
           /\ cres.ret = CBool(craw.status # 0)

\* end_document, made right after an end_document that reported failure, has
\* gone to the native library and returned its true
C29_Witness ==
    /\ Returned
    /\ cop.name = "end_document"
    /\ cprev = CBool(FALSE)
    /\ cres.calls = 1
    /\ cres.ret = CBool(TRUE)

\* C24 as stated: while recognize is in its native call and the caller has a
\* live TessMonitor with a deadline set, that monitor is among the handles
\* the native recognition call was given.
C24_RecognizeUsesMonitor ==
    \A t \in Threads :
        (/\ pc[t] = "native" /\ op[t].name = "recognize"
         /\ kind[Beside] = "monitor" /\ live[Beside] >= 1
         /\ native[Beside].var = 1)
            => Beside \in NativeArgs(op[t])

\* the lock of another handle than the engine's is free for thread u
OtherLockFree(u) ==
    /\ pc[u] = "acq"
    /\ Wanted(u) # Engine
    /\ lockHolder[Wanted(u)] = NoThread

\* C25: while a thread is inside the native call of recognize, holding the
\* engine's lock, a call on an iterator, monitor or renderer handle whose own
\* lock is free can take that lock at once; it never waits for the engine.
C25_OtherHandlesNotBlocked ==
    \A t \in Threads, u \in Threads :
        (InNative(t, Engine) /\ op[t].name = "recognize" /\ OtherLockFree(u))
            => ENABLED Acquire(u)

\* recognize and a call on the iterator are inside their native calls at the
\* same time
C25_Witness ==
    \E t \in Threads, u \in Threads :
        /\ InNative(t, Engine) /\ op[t].name = "recognize"
        /\ InNative(u, IterHandle) /\ op[u].name = "next"

\* the engine's results are gone while its iterator is alive: the engine's
\* native object was deleted, or clear dropped the image it worked on
EngineGone ==
    /\ kind[IterHandle] = "result" /\ live[IterHandle] >= 1
    /\ (Released(Engine) \/ ~native[Engine].image)

\* C30: while an iterator handed out by the engine is alive, an idle thread
\* can start dropping an engine wrapper nobody is using; and after the engine
\* was cleared or deleted, a call on the iterator can start, is not turned
\* away at its lock and goes on to its native call.
C30_IteratorOutlivesEngine ==
    /\ [](\A t \in Threads :
            /\ (/\ pc[t] = "idle" /\ live[IterHandle] >= 1
                 /\ Borrowable(Engine) >= 1 /\ Users(Engine) = {})
                    => ENABLED BeginDrop(t, Engine)
            /\ (pc[t] = "idle" /\ EngineGone /\ Borrowable(IterHandle) >= 1)
                    => ENABLED BeginCall(t, IterHandle, "next"))
    /\ [][\A t \in Threads :
            (/\ EngineGone /\ pc[t] = "acq" /\ op[t].h = IterHandle
             /\ op[t].name = "next" /\ pc'[t] # "acq")
                => (pc'[t] = "native" /\ IterHandle \in NativeArgs(op'[t]))]_vars

\* next on the iterator is inside its native call after the engine's native
\* object was deleted by Drop
C30_Witness ==
    \E t \in Threads :
        /\ InNative(t, IterHandle) /\ op[t].name = "next"
        /\ kind[IterHandle] = "result"
        /\ dropDeletes[Engine] >= 1

\* how often the native step e was made in the course of a call
Count(events, e) == Cardinality({i \in DOMAIN events : events[i] = e})

\* C31: get_iterators asks for no iterator when its recognize step fails;
\* when one of the two native iterators is null it deletes the other exactly
\* once, deletes nothing for the null one and returns NullPointerError; when
\* both are there it deletes nothing and wraps each exactly once.
C31_GetIteratorsCleansUp ==
    (Returned /\ cop.name = "get_iterators")
        => LET ev == cres.events
               pg == craw.data[1]
               rs == craw.data[2]
           IN IF craw.status # 0
              THEN /\ cres.ret = CErr("OcrError")
                   /\ Count(ev, "analyse_layout") = 0 /\ Count(ev, "get_iterator") = 0
              ELSE IF pg = Null \/ rs = Null
                   THEN /\ cres.ret = CErr("NullPointerError")
                        /\ Count(ev, "delete_page") = B2I(pg # Null)
                        /\ Count(ev, "delete_result") = B2I(rs # Null)
                        /\ Count(ev, "wrap_page") = 0 /\ Count(ev, "wrap_result") = 0
                   ELSE /\ cres.ret = COk(<<>>)
                        /\ Count(ev, "wrap_page") = 1 /\ Count(ev, "wrap_result") = 1
                        /\ Count(ev, "delete_page") = 0 /\ Count(ev, "delete_result") = 0

\* get_iterators has returned its error after the layout analysis gave a
\* page iterator and the engine gave no result iterator
C31_Witness ==
    /\ Returned
    /\ cop.name = "get_iterators"
    /\ craw.status = 0
    /\ craw.data = <<1, Null>>
    /\ Count(cres.events, "delete_page") = 1

\* C32 as stated: while a thread is between the recognize step of
\* get_iterators and its request for the two iterators, no other thread is
\* inside a native call on that engine.
C32_GetIteratorsAtomic ==
    \A t \in Threads, u \in Threads :
        (/\ op[t].name = "get_iterators" /\ op[t].arg = "iterators"
         /\ u # t)
            => ~InNative(u, Engine)

\* C33 as stated: when get_current_word or get_word_with_bounds reads the
\* bounding box or the confidence, the cursor is where it read the text.
C33_WordReadAtOnePosition ==
    \A t \in Threads :
        (/\ op[t].name \in WordGetters
         /\ pc[t] = "native"
         /\ op[t].arg \in {"box", "conf"})
            => native[op[t].h].var = op[t].val

\* C34 as stated: a method that panics on a string with an interior NUL
\* leaves every lock as unpoisoned as it found it.
C34_ArgumentPanicPoisonsNothing ==
    [][\A t \in Threads :
         (/\ ret[t].tag # "Panic"
          /\ ret'[t].tag = "Panic" /\ ret'[t].err = "NulError")
            => poisoned' = poisoned]_vars

\* C35: a thread about to take a lock does not hold that lock; and when no
\* other thread is inside a call, its lock() returns at once.
C35_NoSelfDeadlock ==
    \A t \in Threads :
        pc[t] \in {"acq", "acq2"}
            => /\ lockHolder[Wanted(t)] # t
               /\ (\A u \in Threads \ {t} : pc[u] = "idle") => ENABLED Acquire(t)

\* get_word_with_bounds, alone, is about to lock again for its bounding box
C35_Witness ==
    \E t \in Threads :
        /\ op[t].name = "get_word_with_bounds"
        /\ op[t].arg = "box"
        /\ pc[t] = "acq"
        /\ \A u \in Threads \ {t} : pc[u] = "idle"
====
